---- MODULE Spec2Model ----
(***************************************************************************)
(* The ToDo API of src/main.py: a single SQLite table "tasks" and the five *)
(* handlers over it (list, create, get, update with reordering, delete     *)
(* with recompaction).                                                     *)
(*                                                                         *)
(* Every handler opens its own sqlite3 connection (get_db) and runs its    *)
(* SQL statements one after another.  The connection uses Python's default *)
(* transaction handling: a SELECT outside a transaction reads the          *)
(* committed table and holds nothing afterwards; the first INSERT, UPDATE  *)
(* or DELETE opens a transaction and takes SQLite's write lock; the        *)
(* writes stay private to the connection until conn.commit(); closing the  *)
(* connection without a commit discards them.                              *)
(*                                                                         *)
(* One action models one statement of a handler together with the Python   *)
(* around it.  A field of the request body is bound where the handler      *)
(* first reads it: no statement before that read depends on it.            *)
(***************************************************************************)
EXTENDS Integers, Sequences, FiniteSets, TLC

\* ------------------------------------------------------------------ bounds
\* ids the AUTOINCREMENT key hands out before the model stops creating
MaxId == 3
\* largest order_index a request carries or an append may reach
MaxIndex == 3
\* CURRENT_TIMESTAMP takes the values 0..MaxTime
MaxTime == 1

\* ------------------------------------------------------- program constants
TEMP_INDEX == -1
valid_statuses == {"todo", "in_progress", "done"}

\* The clients whose requests the server handles (one handler run each).
Clients == {"c1", "c2"}
\* The client of the specifications that run one request at a time.
Solo == "c1"

\* Optional[T]: None is the empty set, a value v is {v}.
None == {}
Some(v) == {v}
Val(o) == CHOOSE v \in o : TRUE

\* ----------------------------------------------------------- request inputs
Ids == 1..MaxId
Titles == {"a", "b"}
\* status strings a body may carry: those of the enumeration, an unknown
\* one, and the empty string
StatusInputs == valid_statuses \cup {"bogus", ""}
IndexInputs == TEMP_INDEX..MaxIndex
\* positions an Update may ask for: one below the sentinel up to one above
\* the largest index
MoveTargets == (TEMP_INDEX - 1)..(MaxIndex + 1)

\* ---------------------------------------------------------------- the table
\* A table is a function from the ids of its rows to
\* [title, status, created_at, order_index].
EmptyTable == [i \in {} |-> 0]

Row(title, status, created_at, order_index) ==
    [title |-> title, status |-> status, created_at |-> created_at,
     order_index |-> order_index]

\* dict(row) of "SELECT id, title, status, created_at, order_index"
TaskOf(t, id) ==
    [id |-> id, title |-> t[id].title, status |-> t[id].status,
     created_at |-> t[id].created_at, order_index |-> t[id].order_index]

IndexSet(t) == {t[i].order_index : i \in DOMAIN t}

SetMax(S) == CHOOSE m \in S : \A x \in S : x <= m

\* SELECT MAX(order_index) FROM tasks: NULL on the empty table
SelectMax(t) == IF DOMAIN t = {} THEN None ELSE Some(SetMax(IndexSet(t)))

\* Python's `x or 0`: None and 0 both give 0
OrZero(o) == IF o = None \/ o = Some(0) THEN 0 ELSE Val(o)

\* mutant of InsertRow: the insert makes room, moving the rows at or after
\* the new position one up
InsertRowShifting(t, id, title, status, created_at, order_index) ==
    [i \in DOMAIN t \cup {id} |->
        IF i = id THEN Row(title, status, created_at, order_index)
        ELSE IF t[i].order_index >= order_index
             THEN [t[i] EXCEPT !.order_index = @ + 1]
             ELSE t[i]]

\* INSERT INTO tasks (title, status, order_index): the AUTOINCREMENT id is
\* one more than the largest id ever used; created_at defaults to the time
InsertRow(t, id, title, status, created_at, order_index) ==
    [i \in DOMAIN t \cup {id} |->
        IF i = id THEN Row(title, status, created_at, order_index) ELSE t[i]]

\* UPDATE tasks SET order_index = ? WHERE id = ?
SetOrderIndex(t, id, v) ==
    [i \in DOMAIN t |-> IF i = id THEN [t[i] EXCEPT !.order_index = v] ELSE t[i]]

\* mutant of ShiftDown: the upper end of the range is left out
ShiftDownOpenEnd(t, lo, hi) ==
    [i \in DOMAIN t |->
        IF t[i].order_index > lo /\ t[i].order_index < hi
        THEN [t[i] EXCEPT !.order_index = @ - 1] ELSE t[i]]

\* UPDATE tasks SET order_index = order_index - 1
\*   WHERE order_index > lo AND order_index <= hi
ShiftDown(t, lo, hi) ==
    [i \in DOMAIN t |->
        IF t[i].order_index > lo /\ t[i].order_index <= hi
        THEN [t[i] EXCEPT !.order_index = @ - 1] ELSE t[i]]

\* mutant of ShiftUp: the lower end of the range is left out
ShiftUpOpenStart(t, lo, hi) ==
    [i \in DOMAIN t |->
        IF t[i].order_index > lo /\ t[i].order_index < hi
        THEN [t[i] EXCEPT !.order_index = @ + 1] ELSE t[i]]

\* UPDATE tasks SET order_index = order_index + 1
\*   WHERE order_index >= lo AND order_index < hi
ShiftUp(t, lo, hi) ==
    [i \in DOMAIN t |->
        IF t[i].order_index >= lo /\ t[i].order_index < hi
        THEN [t[i] EXCEPT !.order_index = @ + 1] ELSE t[i]]

\* mutant of ShiftRange: the rows are shifted down whichever way the task
\* moves
ShiftRangeOneWay(t, current_order_index, new_order_index) ==
    ShiftDown(t, current_order_index, new_order_index)

\* the shift of the reordering logic: which range moves, and which way
ShiftRange(t, current_order_index, new_order_index) ==
    IF new_order_index > current_order_index
    THEN ShiftDown(t, current_order_index, new_order_index)
    ELSE ShiftUp(t, new_order_index, current_order_index)

\* mutant of Truthy: `if task_update.status is not None:`
TruthyUnlessNone(o) == o # None

\* `if task_update.status:` -- None and "" are both falsy
Truthy(o) == o # None /\ o # Some("")

\* mutant of SetFields: the UPDATE has no WHERE clause
SetFieldsEveryRow(t, id, status, title) ==
    [i \in DOMAIN t |->
        [t[i] EXCEPT !.status = IF Truthy(status) THEN Val(status) ELSE @,
                     !.title = IF title # None THEN Val(title) ELSE @]]

\* UPDATE tasks SET status = ?, title = ? WHERE id = ? with the fields given
SetFields(t, id, status, title) ==
    [i \in DOMAIN t |->
        IF i = id
        THEN [t[i] EXCEPT !.status = IF Truthy(status) THEN Val(status) ELSE @,
                          !.title = IF title # None THEN Val(title) ELSE @]
        ELSE t[i]]

\* DELETE FROM tasks WHERE id = ?
DeleteRow(t, id) == [i \in DOMAIN t \ {id} |-> t[i]]

\* mutant of OrderedIds: ORDER BY order_index DESC
OrderedIdsDescending(t) ==
    {s \in [1..Cardinality(DOMAIN t) -> DOMAIN t] :
        /\ \A i, j \in DOMAIN s : i # j => s[i] # s[j]
        /\ \A i, j \in DOMAIN s :
              i < j => t[s[i]].order_index >= t[s[j]].order_index}

\* The id lists "SELECT id FROM tasks ORDER BY order_index ASC" may return:
\* every row once, ascending in order_index; SQL leaves the order of rows
\* with equal order_index open.
OrderedIds(t) ==
    {s \in [1..Cardinality(DOMAIN t) -> DOMAIN t] :
        /\ \A i, j \in DOMAIN s : i # j => s[i] # s[j]
        /\ \A i, j \in DOMAIN s :
              i < j => t[s[i]].order_index <= t[s[j]].order_index}

\* the rows of "SELECT ... FROM tasks WHERE id = ?": none or one
SelectById(t, id) == IF id \in DOMAIN t THEN <<TaskOf(t, id)>> ELSE << >>

\* ------------------------------------------------------------------- state
VARIABLES
    tasks,            \* the committed table
    sqlite_sequence,  \* committed AUTOINCREMENT counter: largest id ever used
    now,              \* the value CURRENT_TIMESTAMP yields
    conn,             \* per client: the handler's connection
    pc,               \* per client: the statement its handler runs next
    loc,              \* per client: the handler's local variables
    resp,             \* per client: the response the handler has produced
    before            \* per client: the committed table when the request came

vars == <<tasks, sqlite_sequence, now, conn, pc, loc, resp, before>>

\* sqlite3.connect(DATABASE): no transaction open
NoTxn == [in_txn |-> FALSE, rows |-> EmptyTable, seq |-> 0]

NoLocals ==
    [op |-> "none", id |-> 0, order_index |-> None, status |-> None,
     current_order_index |-> 0, max_index |-> 0, task_ids |-> << >>, i |-> 0]

NoResponse == [code |-> 0, body |-> << >>]

Init ==
    /\ tasks = EmptyTable
    /\ sqlite_sequence = 0
    /\ now = 0
    /\ conn = [c \in Clients |-> NoTxn]
    /\ pc = [c \in Clients |-> "idle"]
    /\ loc = [c \in Clients |-> NoLocals]
    /\ resp = [c \in Clients |-> NoResponse]
    /\ before = [c \in Clients |-> EmptyTable]

\* ------------------------------------------------------------ the connection
\* mutant of View: a statement reads the uncommitted writes of any connection
ViewDirty(c) ==
    IF \E d \in Clients : conn[d].in_txn
    THEN conn[CHOOSE d \in Clients : conn[d].in_txn].rows
    ELSE tasks

\* what a statement of c's connection reads
View(c) == IF conn[c].in_txn THEN conn[c].rows ELSE tasks
ViewSeq(c) == IF conn[c].in_txn THEN conn[c].seq ELSE sqlite_sequence

\* SQLite's write lock: one connection at a time holds an open write
\* transaction
CanWrite(c) == \A d \in Clients \ {c} : ~conn[d].in_txn

\* c's connection after a writing statement left the table as rows and the
\* AUTOINCREMENT counter as seq: the statement opens the transaction if
\* none is open
Written(rows, seq) == [in_txn |-> TRUE, rows |-> rows, seq |-> seq]

\* conn.commit(): the writes of the open transaction become the committed
\* table
CommitTable(cn, t) == IF cn.in_txn THEN cn.rows ELSE t

\* mutant of CommitSeq: no AUTOINCREMENT, the counter is the largest id in
\* the table
CommitSeqLargestRow(cn, s) ==
    IF ~cn.in_txn THEN s
    ELSE IF DOMAIN cn.rows = {} THEN 0
    ELSE CHOOSE m \in DOMAIN cn.rows : \A i \in DOMAIN cn.rows : i <= m

CommitSeq(cn, s) == IF cn.in_txn THEN cn.seq ELSE s

\* mutant of CloseTable: closing commits what is pending
CloseTableCommits(cn, t) == IF cn.in_txn THEN cn.rows ELSE t

\* conn.close() at the exit of `with get_db()`: the writes of a transaction
\* still open are dropped, the committed table stays as it is
CloseTable(cn, t) == t
CloseSeq(cn, s) == s

\* raise HTTPException(code) / return: the handler ends with this response;
\* leaving the `with` block closes the connection
Finish(c, code, body) ==
    /\ pc' = [pc EXCEPT ![c] = "done"]
    /\ resp' = [resp EXCEPT ![c] = [code |-> code, body |-> body]]
    /\ tasks' = CloseTable(conn[c], tasks)
    /\ sqlite_sequence' = CloseSeq(conn[c], sqlite_sequence)
    /\ conn' = [conn EXCEPT ![c] = NoTxn]

\* conn.commit() in the middle of a handler
Commit(c) ==
    /\ tasks' = CommitTable(conn[c], tasks)
    /\ sqlite_sequence' = CommitSeq(conn[c], sqlite_sequence)
    /\ conn' = [conn EXCEPT ![c] = NoTxn]

\* ------------------------------------------------------------------- clock
\* Time passes.  Only the INSERT reads the clock, so a tick while a handler
\* runs shows the same as a tick before it.
Tick ==
    /\ \A c \in Clients : pc[c] = "idle"
    /\ now < MaxTime
    /\ now' = now + 1
    /\ UNCHANGED <<tasks, sqlite_sequence, conn, pc, loc, resp, before>>

\* ---------------------------------------------------------------- requests
\* The router hands a request to its handler.
Receive(c, op, id) ==
    /\ pc[c] = "idle"
    /\ pc' = [pc EXCEPT ![c] = op]
    /\ loc' = [loc EXCEPT ![c] = [NoLocals EXCEPT !.op = op, !.id = id]]
    /\ before' = [before EXCEPT ![c] = tasks]
    /\ UNCHANGED <<tasks, sqlite_sequence, now, conn, resp>>

\* The response has gone out; the client is free for its next request.
Return(c) ==
    /\ pc[c] = "done"
    /\ pc' = [pc EXCEPT ![c] = "idle"]
    /\ loc' = [loc EXCEPT ![c] = NoLocals]
    /\ resp' = [resp EXCEPT ![c] = NoResponse]
    /\ before' = [before EXCEPT ![c] = EmptyTable]
    /\ UNCHANGED <<tasks, sqlite_sequence, now, conn>>

\* --------------------------------------------------------------- get_tasks
\* SELECT ... ORDER BY order_index ASC; return tasks
ListSelect(c) ==
    /\ pc[c] = "list"
    /\ \E s \in OrderedIds(View(c)) :
          Finish(c, 200, [k \in DOMAIN s |-> TaskOf(View(c), s[k])])
    /\ UNCHANGED <<now, loc, before>>

\* ---------------------------------------------------------------- get_task
\* SELECT ... WHERE id = ?; 404 if there is no row
GetSelect(c) ==
    /\ pc[c] = "get"
    /\ IF loc[c].id \in DOMAIN View(c)
       THEN Finish(c, 200, SelectById(View(c), loc[c].id))
       ELSE Finish(c, 404, << >>)
    /\ UNCHANGED <<now, loc, before>>

\* ------------------------------------------------------------- create_task
\* if task.status not in valid_statuses: raise HTTPException(400)
CreateValidate(c, status) ==
    /\ pc[c] = "create"
    /\ IF status \in valid_statuses
       THEN /\ pc' = [pc EXCEPT ![c] = "create_max"]
            /\ loc' = [loc EXCEPT ![c].status = Some(status)]
            /\ UNCHANGED <<tasks, sqlite_sequence, conn, resp>>
       ELSE /\ Finish(c, 400, << >>)
            /\ loc' = [loc EXCEPT ![c].status = Some(status)]
    /\ UNCHANGED <<now, before>>

\* SELECT MAX(order_index) FROM tasks; max_index = ... or 0
CreateSelectMax(c) ==
    /\ pc[c] = "create_max"
    /\ pc' = [pc EXCEPT ![c] = "create_insert"]
    /\ loc' = [loc EXCEPT ![c].max_index = OrZero(SelectMax(View(c)))]
    /\ UNCHANGED <<tasks, sqlite_sequence, now, conn, resp, before>>

\* new_order_index = max_index + 1; INSERT INTO tasks (title, status,
\* order_index) with task.order_index if it is given, else new_order_index
CreateInsert(c, title, order_index) ==
    /\ pc[c] = "create_insert"
    /\ CanWrite(c)
    /\ ViewSeq(c) < MaxId
    /\ LET new_order_index == loc[c].max_index + 1
           stored == IF order_index # None THEN Val(order_index)
                     ELSE new_order_index
           task_id == ViewSeq(c) + 1
       IN /\ stored <= MaxIndex
          /\ conn' = [conn EXCEPT ![c] =
                 Written(InsertRow(View(c), task_id, title,
                                   Val(loc[c].status), now, stored),
                         task_id)]
          /\ loc' = [loc EXCEPT ![c].id = task_id,
                                ![c].order_index = order_index]
    /\ pc' = [pc EXCEPT ![c] = "create_commit"]
    /\ UNCHANGED <<tasks, sqlite_sequence, now, resp, before>>

\* conn.commit()
CreateCommit(c) ==
    /\ pc[c] = "create_commit"
    /\ Commit(c)
    /\ pc' = [pc EXCEPT ![c] = "create_fetch"]
    /\ UNCHANGED <<now, loc, resp, before>>

\* mutant of CreateFetch: the answer is built from the handler's values,
\* not read back from the table
CreateFetchEchoes(c) ==
    /\ pc[c] = "create_fetch"
    /\ Finish(c, 201,
              <<[id |-> loc[c].id, title |-> "a", status |-> Val(loc[c].status),
                 created_at |-> 0, order_index |-> loc[c].max_index + 1]>>)
    /\ UNCHANGED <<now, loc, before>>

\* SELECT ... WHERE id = task_id; new_task = dict(cursor.fetchone()); return
\* new_task.  dict(None) raises if the row is gone: a server error.
CreateFetch(c) ==
    /\ pc[c] = "create_fetch"
    /\ IF loc[c].id \in DOMAIN View(c)
       THEN Finish(c, 201, SelectById(View(c), loc[c].id))
       ELSE Finish(c, 500, << >>)
    /\ UNCHANGED <<now, loc, before>>

\* ------------------------------------------------------------- update_task
\* SELECT order_index FROM tasks WHERE id = ?; 404 if there is no row
UpdateSelect(c) ==
    /\ pc[c] = "update"
    /\ IF loc[c].id \in DOMAIN View(c)
       THEN /\ pc' = [pc EXCEPT ![c] = "update_reorder"]
            /\ loc' = [loc EXCEPT ![c].current_order_index =
                                      View(c)[loc[c].id].order_index]
            /\ UNCHANGED <<tasks, sqlite_sequence, conn, resp>>
       ELSE /\ Finish(c, 404, << >>)
            /\ UNCHANGED loc
    /\ UNCHANGED <<now, before>>

\* if task_update.order_index is not None and != current_order_index:
\*     UPDATE tasks SET order_index = TEMP_INDEX WHERE id = ?
UpdateHide(c, order_index) ==
    /\ pc[c] = "update_reorder"
    /\ loc' = [loc EXCEPT ![c].order_index = order_index]
    /\ IF order_index # None /\ Val(order_index) # loc[c].current_order_index
       THEN /\ CanWrite(c)
            /\ conn' = [conn EXCEPT ![c] =
                   Written(SetOrderIndex(View(c), loc[c].id, TEMP_INDEX),
                           ViewSeq(c))]
            /\ pc' = [pc EXCEPT ![c] = "update_shift"]
       ELSE /\ pc' = [pc EXCEPT ![c] = "update_fields"]
            /\ UNCHANGED conn
    /\ UNCHANGED <<tasks, sqlite_sequence, now, resp, before>>

\* the UPDATE that shifts the rows between the old and the new position
UpdateShift(c) ==
    /\ pc[c] = "update_shift"
    /\ conn' = [conn EXCEPT ![c] =
           Written(ShiftRange(View(c), loc[c].current_order_index,
                              Val(loc[c].order_index)),
                   ViewSeq(c))]
    /\ pc' = [pc EXCEPT ![c] = "update_place"]
    /\ UNCHANGED <<tasks, sqlite_sequence, now, loc, resp, before>>

\* mutant of UpdatePlace: the new position is clamped to 0 .. n-1
UpdatePlaceClamped(c) ==
    /\ pc[c] = "update_place"
    /\ LET n == Cardinality(DOMAIN View(c))
           T == Val(loc[c].order_index)
           clamped == IF T < 0 THEN 0 ELSE IF T > n - 1 THEN n - 1 ELSE T
       IN conn' = [conn EXCEPT ![c] =
              Written(SetOrderIndex(View(c), loc[c].id, clamped), ViewSeq(c))]
    /\ pc' = [pc EXCEPT ![c] = "update_fields"]
    /\ UNCHANGED <<tasks, sqlite_sequence, now, loc, resp, before>>

\* UPDATE tasks SET order_index = new_order_index WHERE id = ?
UpdatePlace(c) ==
    /\ pc[c] = "update_place"
    /\ conn' = [conn EXCEPT ![c] =
           Written(SetOrderIndex(View(c), loc[c].id, Val(loc[c].order_index)),
                   ViewSeq(c))]
    /\ pc' = [pc EXCEPT ![c] = "update_fields"]
    /\ UNCHANGED <<tasks, sqlite_sequence, now, loc, resp, before>>

\* if task_update.status: 400 unless it is valid; if updates: UPDATE tasks
\* SET status = ?, title = ? WHERE id = ?
UpdateFields(c, status, title) ==
    /\ pc[c] = "update_fields"
    /\ IF Truthy(status) /\ Val(status) \notin valid_statuses
       THEN /\ Finish(c, 400, << >>)
            /\ loc' = [loc EXCEPT ![c].status = status]
       ELSE /\ IF Truthy(status) \/ title # None
               THEN /\ CanWrite(c)
                    /\ conn' = [conn EXCEPT ![c] =
                           Written(SetFields(View(c), loc[c].id, status, title),
                                   ViewSeq(c))]
               ELSE UNCHANGED conn
            /\ pc' = [pc EXCEPT ![c] = "update_commit"]
            /\ loc' = [loc EXCEPT ![c].status = status]
            /\ UNCHANGED <<tasks, sqlite_sequence, resp>>
    /\ UNCHANGED <<now, before>>

\* conn.commit()
UpdateCommit(c) ==
    /\ pc[c] = "update_commit"
    /\ Commit(c)
    /\ pc' = [pc EXCEPT ![c] = "update_fetch"]
    /\ UNCHANGED <<now, loc, resp, before>>

\* SELECT ... WHERE id = ?; updated_task = dict(cursor.fetchone()); return
UpdateFetch(c) ==
    /\ pc[c] = "update_fetch"
    /\ IF loc[c].id \in DOMAIN View(c)
       THEN Finish(c, 200, SelectById(View(c), loc[c].id))
       ELSE Finish(c, 500, << >>)
    /\ UNCHANGED <<now, loc, before>>

\* ------------------------------------------------------------- delete_task
\* mutant of DeleteExec: no rowcount check, the recompaction always runs
DeleteExecUnchecked(c) ==
    /\ pc[c] = "delete"
    /\ CanWrite(c)
    /\ conn' = [conn EXCEPT ![c] =
           Written(DeleteRow(View(c), loc[c].id), ViewSeq(c))]
    /\ pc' = [pc EXCEPT ![c] = "delete_select"]
    /\ UNCHANGED <<tasks, sqlite_sequence, resp, now, loc, before>>

\* DELETE FROM tasks WHERE id = ?; 404 if cursor.rowcount == 0
DeleteExec(c) ==
    /\ pc[c] = "delete"
    /\ CanWrite(c)
    /\ IF loc[c].id \in DOMAIN View(c)
       THEN /\ conn' = [conn EXCEPT ![c] =
                   Written(DeleteRow(View(c), loc[c].id), ViewSeq(c))]
            /\ pc' = [pc EXCEPT ![c] = "delete_select"]
            /\ UNCHANGED <<tasks, sqlite_sequence, resp>>
       ELSE Finish(c, 404, << >>)
    /\ UNCHANGED <<now, loc, before>>

\* SELECT id FROM tasks ORDER BY order_index ASC
DeleteSelect(c) ==
    /\ pc[c] = "delete_select"
    /\ \E s \in OrderedIds(View(c)) :
          loc' = [loc EXCEPT ![c].task_ids = s, ![c].i = 0]
    /\ pc' = [pc EXCEPT ![c] = "delete_renumber"]
    /\ UNCHANGED <<tasks, sqlite_sequence, now, conn, resp, before>>

\* mutant of DeleteRenumber: the numbering starts at 1
DeleteRenumberFromOne(c) ==
    /\ pc[c] = "delete_renumber"
    /\ loc[c].i < Len(loc[c].task_ids)
    /\ LET new_index == loc[c].i
           task_id == loc[c].task_ids[new_index + 1]
       IN conn' = [conn EXCEPT ![c] =
              Written(SetOrderIndex(View(c), task_id, new_index + 1),
                      ViewSeq(c))]
    /\ loc' = [loc EXCEPT ![c].i = @ + 1]
    /\ UNCHANGED <<tasks, sqlite_sequence, now, pc, resp, before>>

\* one turn of `for new_index, task_id in enumerate(task_ids)`:
\* UPDATE tasks SET order_index = new_index WHERE id = task_id
DeleteRenumber(c) ==
    /\ pc[c] = "delete_renumber"
    /\ loc[c].i < Len(loc[c].task_ids)
    /\ LET new_index == loc[c].i
           task_id == loc[c].task_ids[new_index + 1]
       IN conn' = [conn EXCEPT ![c] =
              Written(SetOrderIndex(View(c), task_id, new_index), ViewSeq(c))]
    /\ loc' = [loc EXCEPT ![c].i = @ + 1]
    /\ UNCHANGED <<tasks, sqlite_sequence, now, pc, resp, before>>

\* the loop is over: conn.commit(); return None
DeleteCommit(c) ==
    /\ pc[c] = "delete_renumber"
    /\ loc[c].i = Len(loc[c].task_ids)
    /\ Commit(c)
    /\ pc' = [pc EXCEPT ![c] = "done"]
    /\ resp' = [resp EXCEPT ![c] = [code |-> 204, body |-> << >>]]
    /\ UNCHANGED <<now, loc, before>>

\* ------------------------------------------------------------ lock timeout
\* The first writing statement of a handler waits while another connection
\* holds the write lock (its action is not enabled); sqlite3.connect's
\* default timeout ends the wait with OperationalError("database is
\* locked"), which the handler does not catch: a server error.
LockTimeout(c) ==
    /\ pc[c] \in {"create_insert", "update_reorder", "update_fields", "delete"}
    /\ ~conn[c].in_txn
    /\ ~CanWrite(c)
    /\ Finish(c, 500, << >>)
    /\ UNCHANGED <<now, loc, before>>

\* ------------------------------------------------------ statement failure
\* mutant of StatementFails: the exit path commits what the handler wrote
StatementFailsCommitting(c) ==
    /\ pc[c] \notin {"idle", "done"}
    /\ conn[c].in_txn
    /\ Commit(c)
    /\ pc' = [pc EXCEPT ![c] = "done"]
    /\ resp' = [resp EXCEPT ![c] = [code |-> 500, body |-> << >>]]
    /\ UNCHANGED <<now, loc, before>>

\* The statement a handler is about to run raises (sqlite3.Error from
\* cursor.execute or conn.commit) while the handler's transaction is open.
\* No handler catches it: get_db's `finally: conn.close()` runs and the
\* request ends as a server error.  (A statement that fails while no
\* transaction is open has nothing to lose.)
StatementFails(c) ==
    /\ pc[c] \notin {"idle", "done"}
    /\ conn[c].in_txn
    /\ Finish(c, 500, << >>)
    /\ UNCHANGED <<now, loc, before>>

\* ----------------------------------------------------------- specifications
Requests ==
    {<<"list", 0>>, <<"create", 0>>}
        \cup {<<op, id>> : op \in {"get", "update", "delete"}, id \in Ids}

Optional(S) == {None} \cup {Some(v) : v \in S}

\* the positions of the list c's connection sees: 0 .. n-1 for n tasks
InRange(c) == 0..(Cardinality(DOMAIN View(c)) - 1)

\* The statements of the handlers that draw nothing from the request body.
Statement(c) ==
    \/ ListSelect(c) \/ GetSelect(c)
    \/ CreateSelectMax(c) \/ CreateCommit(c) \/ CreateFetch(c)
    \/ UpdateSelect(c) \/ UpdateShift(c) \/ UpdatePlace(c)
    \/ UpdateCommit(c) \/ UpdateFetch(c)
    \/ DeleteExec(c) \/ DeleteSelect(c) \/ DeleteRenumber(c)
    \/ DeleteCommit(c)

\* Spec: one request at a time, all within one tick of the clock; bodies
\* carry any order_index (absent, the sentinel, in range, out of range), a
\* valid or an unknown status, and one title; any statement inside an open
\* transaction may fail.
Next ==
    \/ \E r \in Requests : Receive(Solo, r[1], r[2])
    \/ Return(Solo)
    \/ Statement(Solo)
    \/ \E status \in {"todo", "bogus"} : CreateValidate(Solo, status)
    \/ \E order_index \in Optional(IndexInputs) :
          CreateInsert(Solo, "a", order_index)
    \/ \E order_index \in Optional(IndexInputs) : UpdateHide(Solo, order_index)
    \/ \E status \in {None, Some("bogus")} : UpdateFields(Solo, status, None)
    \/ StatementFails(Solo)

Spec == Init /\ [][Next]_vars

\* SpecTrusted: one request at a time, the clock running; every Create
\* omits order_index and every Update carries none or one within [0, n-1].
NextTrusted ==
    \/ Tick
    \/ \E r \in Requests : Receive(Solo, r[1], r[2])
    \/ Return(Solo)
    \/ Statement(Solo)
    \/ \E status \in {"todo", "bogus"} : CreateValidate(Solo, status)
    \/ CreateInsert(Solo, "a", None)
    \/ \E order_index \in Optional(InRange(Solo)) : UpdateHide(Solo, order_index)
    \/ \E status \in {None, Some("bogus")} : UpdateFields(Solo, status, None)

SpecTrusted == Init /\ [][NextTrusted]_vars

\* SpecConc: two requests, one per client, handled at the same time on a
\* dense list of MaxId - 2 to MaxId tasks; the statements of the two
\* handlers interleave.  Creates omit order_index, Updates carry an
\* order_index within [0, n-1] (or none) and no other field.  The tasks of
\* the list were created at time 0 and the clock stands at any value.  The
\* starting lists are states Spec reaches (a Create, a move to 0, further Creates).
DenseList(n) == [i \in 1..n |-> Row("a", "todo", 0, i - 1)]

InitConc ==
    /\ \E n \in (MaxId - 2)..MaxId :
          /\ tasks = DenseList(n)
          /\ sqlite_sequence = n
    /\ now \in 0..MaxTime
    /\ conn = [c \in Clients |-> NoTxn]
    /\ pc = [c \in Clients |-> "idle"]
    /\ loc = [c \in Clients |-> NoLocals]
    /\ resp = [c \in Clients |-> NoResponse]
    /\ before = [c \in Clients |-> EmptyTable]

NextConc ==
    \E c \in Clients :
        \/ \E r \in Requests : Receive(c, r[1], r[2])
        \/ Statement(c)
        \/ CreateValidate(c, "todo")
        \/ CreateInsert(c, "a", None)
        \/ \E order_index \in Optional(0..(Cardinality(DOMAIN before[c]) - 1)) :
              UpdateHide(c, order_index)
        \/ UpdateFields(c, None, None)
        \/ pc[c] # "update_fields" /\ LockTimeout(c)

SpecConc == InitConc /\ [][NextConc]_vars

\* SpecFields: one request on a list of up to MaxId tasks that hold any
\* order_index values (gaps, duplicates and the sentinel included; Creates
\* with an explicit order_index make them), all with the same status of the
\* enumeration; the body carries any title, status and order_index.
InitFields ==
    /\ \E n \in 0..MaxId : \E index \in [1..n -> IndexInputs] :
       \E status \in valid_statuses :
          /\ \A i, j \in 1..n : i < j => index[i] <= index[j]
          /\ tasks = [i \in 1..n |-> Row("a", status, 0, index[i])]
          /\ sqlite_sequence = n
    /\ now = 0
    /\ conn = [c \in Clients |-> NoTxn]
    /\ pc = [c \in Clients |-> "idle"]
    /\ loc = [c \in Clients |-> NoLocals]
    /\ resp = [c \in Clients |-> NoResponse]
    /\ before = [c \in Clients |-> EmptyTable]

NextFields ==
    \/ \E r \in Requests : Receive(Solo, r[1], r[2])
    \/ Statement(Solo)
    \/ \E status \in StatusInputs : CreateValidate(Solo, status)
    \/ \E title \in Titles : \E order_index \in Optional(IndexInputs) :
          CreateInsert(Solo, title, order_index)
    \/ \E order_index \in Optional(MoveTargets) : UpdateHide(Solo, order_index)
    \/ \E status \in Optional(StatusInputs) : \E title \in Optional(Titles) :
          UpdateFields(Solo, status, title)

SpecFields == InitFields /\ [][NextFields]_vars

\* ------------------------------------------------------------------ claims
\* the order_index values are exactly 0 .. n-1 for the n rows of t
Dense(t) ==
    /\ IndexSet(t) = 0..(Cardinality(DOMAIN t) - 1)
    /\ \A i, j \in DOMAIN t : i # j => t[i].order_index # t[j].order_index

\* the handler of c has answered a request of kind op with this code
Answered(c, op, code) ==
    pc[c] = "done" /\ loc[c].op = op /\ resp[c].code = code

\* C1: starting from the empty table, after any sequence of completed
\* Creates that omit order_index, Updates whose order_index is absent or
\* within [0, n-1], and Deletes, the order_index values of the existing
\* tasks are exactly 0 .. n-1.
C1_Density == (\A c \in Clients : pc[c] = "idle") => Dense(tasks)

\* C2: a Create that omits order_index stores the new task at the largest
\* order_index of the existing tasks plus one, and at 0 on the empty table.
C2_AppendIndex ==
    \A c \in Clients :
        Answered(c, "create", 201) /\ loc[c].order_index = None
        => tasks[loc[c].id].order_index =
               IF DOMAIN before[c] = {} THEN 0
               ELSE SetMax(IndexSet(before[c])) + 1

\* the request of c was an Update that moved its task from position C to
\* position T on a dense list and succeeded
MovedOnDense(c, C, T) ==
    /\ Answered(c, "update", 200)
    /\ Dense(before[c])
    /\ loc[c].current_order_index = C
    /\ loc[c].order_index = Some(T)

\* C3: on a dense list, moving the task at C to T with C < T <= n-1 leaves
\* the moved task at T, every task that was in (C, T] one lower, every
\* other task where it was, and no row added or removed.
C3_MoveLater ==
    \A c \in Clients : \A C, T \in 0..MaxIndex :
        MovedOnDense(c, C, T) /\ C < T /\ T <= Cardinality(DOMAIN before[c]) - 1
        => /\ DOMAIN tasks = DOMAIN before[c]
           /\ \A i \in DOMAIN before[c] :
                 tasks[i].order_index =
                     IF i = loc[c].id THEN T
                     ELSE IF before[c][i].order_index > C
                             /\ before[c][i].order_index <= T
                          THEN before[c][i].order_index - 1
                          ELSE before[c][i].order_index

\* a later move happened that shifted one task and left another untouched
C3_Witness ==
    \E c \in Clients : \E C, T \in 0..MaxIndex :
        /\ MovedOnDense(c, C, T) /\ C < T
        /\ T <= Cardinality(DOMAIN before[c]) - 1
        /\ \E i, j \in DOMAIN before[c] :
              /\ before[c][i].order_index > C /\ before[c][i].order_index <= T
              /\ before[c][j].order_index > T
              /\ tasks[j].order_index = before[c][j].order_index

\* C4: on a dense list, moving the task at C to T with 0 <= T < C leaves
\* the moved task at T, every task that was in [T, C) one higher, every
\* other task where it was, and no row added or removed.
C4_MoveEarlier ==
    \A c \in Clients : \A C, T \in 0..MaxIndex :
        MovedOnDense(c, C, T) /\ T < C
        => /\ DOMAIN tasks = DOMAIN before[c]
           /\ \A i \in DOMAIN before[c] :
                 tasks[i].order_index =
                     IF i = loc[c].id THEN T
                     ELSE IF before[c][i].order_index >= T
                             /\ before[c][i].order_index < C
                          THEN before[c][i].order_index + 1
                          ELSE before[c][i].order_index

\* an earlier move happened that shifted one task and left another untouched
C4_Witness ==
    \E c \in Clients : \E C, T \in 0..MaxIndex :
        /\ MovedOnDense(c, C, T) /\ T < C
        /\ \E i, j \in DOMAIN before[c] :
              /\ before[c][i].order_index >= T /\ before[c][i].order_index < C
              /\ before[c][j].order_index < T
              /\ tasks[j].order_index = before[c][j].order_index

\* rows i of t and u agree in everything but order_index
SameFields(t, u, i) ==
    /\ t[i].title = u[i].title
    /\ t[i].status = u[i].status
    /\ t[i].created_at = u[i].created_at

\* C5: after Delete(id) of an existing task, from any table, exactly that
\* task is gone, the remaining tasks hold 0 .. m-1, each at its rank in the
\* ascending order of their old order_index values.
C5_DeleteRecompacts ==
    \A c \in Clients :
        Answered(c, "delete", 204)
        => LET B == before[c]
               R == DOMAIN B \ {loc[c].id}
           IN /\ loc[c].id \in DOMAIN B
              /\ DOMAIN tasks = R
              /\ \A i \in R : SameFields(tasks, B, i)
              /\ Dense(tasks)
              /\ \A i, j \in R :
                    B[i].order_index < B[j].order_index
                    => tasks[i].order_index < tasks[j].order_index

\* a Delete renumbered a task of a list that was not dense
C5_Witness ==
    \E c \in Clients :
        /\ Answered(c, "delete", 204)
        /\ ~Dense(before[c])
        /\ Cardinality(DOMAIN tasks) >= 2
        /\ \E i \in DOMAIN tasks :
              tasks[i].order_index # before[c][i].order_index

\* the body of a List answer holds every row of t once
ListsAll(body, t) ==
    /\ Len(body) = Cardinality(DOMAIN t)
    /\ \A i \in DOMAIN t : \E k \in DOMAIN body : body[k] = TaskOf(t, i)

\* C6 as claimed: in every reachable state List returns all tasks in
\* strictly ascending order_index order and changes no state.
C6_ListStrict ==
    \A c \in Clients :
        Answered(c, "list", 200)
        => /\ ListsAll(resp[c].body, tasks)
           /\ tasks = before[c]
           /\ \A k \in 1..(Len(resp[c].body) - 1) :
                 resp[c].body[k].order_index < resp[c].body[k + 1].order_index

\* C6 as amended: List returns all tasks in ascending order_index order --
\* no returned task's order_index is below the previous one's, and it is
\* above it when the two tasks hold different values -- and changes no
\* state.
C6_ListAscending ==
    \A c \in Clients :
        Answered(c, "list", 200)
        => /\ ListsAll(resp[c].body, tasks)
           /\ tasks = before[c]
           /\ \A k \in 1..(Len(resp[c].body) - 1) :
                 resp[c].body[k].order_index <= resp[c].body[k + 1].order_index

\* a List answered with three tasks, two of them at the same order_index
C6_Witness ==
    \E c \in Clients :
        /\ Answered(c, "list", 200)
        /\ Len(resp[c].body) = 3
        /\ resp[c].body[1].order_index < resp[c].body[2].order_index
        /\ resp[c].body[2].order_index = resp[c].body[3].order_index

\* C7: Get, Update or Delete of an id no task has answers 404 and leaves
\* the committed table as it was.
C7_NotFound ==
    \A c \in Clients :
        /\ pc[c] = "done"
        /\ loc[c].op \in {"get", "update", "delete"}
        /\ loc[c].id \notin DOMAIN before[c]
        => /\ resp[c].code = 404
           /\ tasks = before[c]
           /\ conn[c] = NoTxn

\* a Delete of a missing id was answered on a list a recompaction would
\* have renumbered
C7_Witness ==
    \E c \in Clients :
        /\ Answered(c, "delete", 404)
        /\ tasks # EmptyTable
        /\ ~Dense(tasks)

\* the status c's request carried is non-empty and not in the enumeration
InvalidStatus(c) ==
    /\ loc[c].status # None
    /\ Val(loc[c].status) # ""
    /\ Val(loc[c].status) \notin valid_statuses

\* C8: a Create, or an Update of an existing task, with a non-empty status
\* outside the enumeration answers 400 and leaves the committed table as it
\* was, also when the Update carried a new order_index.
C8_InvalidStatus ==
    \A c \in Clients :
        /\ pc[c] = "done"
        /\ loc[c].op \in {"create", "update"}
        /\ InvalidStatus(c)
        => /\ resp[c].code = 400
           /\ tasks = before[c]
           /\ conn[c] = NoTxn

\* an Update with an unknown status was refused after its move had written
C8_Witness ==
    \E c \in Clients :
        /\ Answered(c, "update", 400)
        /\ InvalidStatus(c)
        /\ loc[c].order_index # None
        /\ Val(loc[c].order_index) # loc[c].current_order_index
        /\ Cardinality(DOMAIN tasks) >= 2

\* the table a complete move of task id of table B to position T leaves
MoveOutcome(B, id, T) ==
    LET C == B[id].order_index
    IN [i \in DOMAIN B |->
           [B[i] EXCEPT !.order_index =
               IF i = id THEN T
               ELSE IF T > C /\ @ > C /\ @ <= T THEN @ - 1
               ELSE IF T < C /\ @ >= T /\ @ < C THEN @ + 1
               ELSE @]]

\* the table the Update of d leaves, running alone on table B
UpdateOutcome(B, d) ==
    IF loc[d].id \in DOMAIN B /\ loc[d].order_index # None
    THEN MoveOutcome(B, loc[d].id, Val(loc[d].order_index))
    ELSE B

\* C9: a List or Get that runs while an Update moves a task of a dense
\* list never returns the sentinel nor a partly shifted list: what it
\* returns is the table before the move or the table after it.
C9_ReaderIsolated ==
    \A c, d \in Clients :
        /\ c # d
        /\ loc[c].op \in {"list", "get"}
        /\ pc[c] = "done" /\ resp[c].code = 200
        /\ loc[d].op = "update"
        => LET B == before[d]
               M == UpdateOutcome(B, d)
               body == resp[c].body
           IN /\ \A k \in DOMAIN body : body[k].order_index # TEMP_INDEX
              /\ loc[c].op = "list"
                 => ListsAll(body, B) \/ ListsAll(body, M)
              /\ loc[c].op = "get"
                 => body \in {SelectById(B, loc[c].id), SelectById(M, loc[c].id)}

\* a List was answered and the other client's move has hidden its task and
\* shifted the range, uncommitted
C9_Witness ==
    \E c, d \in Clients :
        /\ c # d
        /\ Answered(c, "list", 200)
        /\ Len(resp[c].body) = MaxId
        /\ pc[d] = "update_place"
        /\ conn[d].in_txn
        /\ conn[d].rows[loc[d].id].order_index = TEMP_INDEX
        /\ conn[d].rows # SetOrderIndex(tasks, loc[d].id, TEMP_INDEX)

\* the table Delete(id) leaves, running alone on table B: the remaining
\* tasks, each at its rank
DeleteOutcome(B, id) ==
    LET R == DOMAIN B \ {id}
    IN [i \in R |->
           [B[i] EXCEPT !.order_index =
               Cardinality({j \in R : B[j].order_index < B[i].order_index})]]

\* the table the Create of c leaves, running alone on table B: the new task
\* appended
CreateOutcome(B, c) ==
    InsertRow(B, loc[c].id, "a", "todo", now,
              IF DOMAIN B = {} THEN 0 ELSE SetMax(IndexSet(B)) + 1)

\* the table the request of c leaves, running alone on table B
Outcome(B, c) ==
    CASE loc[c].op = "update" -> UpdateOutcome(B, c)
      [] loc[c].op = "delete" -> DeleteOutcome(B, loc[c].id)
      [] loc[c].op = "create" -> CreateOutcome(B, c)
      [] OTHER -> B

\* the request of c, running alone on table B, succeeds
Applies(B, c) ==
    loc[c].op \in {"update", "delete"} => loc[c].id \in DOMAIN B

\* the request of c is an Update that moves its task
IsMove(c) ==
    /\ loc[c].op = "update"
    /\ loc[c].order_index # None
    /\ Val(loc[c].order_index) # loc[c].current_order_index

\* c and d ran a pair of operations the claim is about, on the same dense
\* list, and both committed
ConcurrentPair(c, d) ==
    /\ pc[c] = "done" /\ pc[d] = "done"
    /\ resp[c].code \in {200, 201, 204} /\ resp[d].code \in {200, 201, 204}
    /\ before[c] = before[d]
    /\ Dense(before[c])
    /\ \/ IsMove(c) /\ IsMove(d)
       \/ (IsMove(c) \/ loc[c].op = "create") /\ loc[d].op = "delete"

\* C10: once two concurrent operations on a dense list (two moves, or a
\* move or an appending Create with a Delete) have both committed, the
\* table is what running them one after the other, in one order or the
\* other, leaves, and its order_index values are 0 .. n-1.
C10_Serializable ==
    \A c, d \in Clients :
        c # d /\ ConcurrentPair(c, d)
        => LET B == before[c]
           IN /\ \/ /\ Applies(B, c) /\ Applies(Outcome(B, c), d)
                    /\ tasks = Outcome(Outcome(B, c), d)
                 \/ /\ Applies(B, d) /\ Applies(Outcome(B, d), c)
                    /\ tasks = Outcome(Outcome(B, d), c)
              /\ Dense(tasks)

\* C11: two concurrent Creates that omit order_index never both commit a
\* task with the same order_index.
C11_ConcurrentAppends ==
    \A c, d \in Clients :
        /\ c # d
        /\ Answered(c, "create", 201) /\ loc[c].order_index = None
        /\ Answered(d, "create", 201) /\ loc[d].order_index = None
        => tasks[loc[c].id].order_index # tasks[loc[d].id].order_index

\* the request of c was a Create, Update or Delete and ended with an error
\* instead of reaching its commit
Aborted(c) ==
    /\ pc[c] = "done"
    /\ loc[c].op \in {"create", "update", "delete"}
    /\ resp[c].code \notin {200, 201, 204}

\* C12: when a Create, Update (with or without a move) or Delete aborts at
\* a statement before its commit, the committed table is what it was
\* before the operation began (no sentinel, no partly shifted range, no
\* deleted row), and no write is left pending.
C12_Rollback ==
    \A c \in Clients :
        Aborted(c) => tasks = before[c] /\ conn[c] = NoTxn

\* a Delete failed after it had deleted its row and renumbered a task of a
\* list that was not dense, and the row is still there
C12_Witness ==
    \E c \in Clients :
        /\ Answered(c, "delete", 500)
        /\ loc[c].i >= 1
        /\ loc[c].id \in DOMAIN tasks
        /\ ~Dense(before[c])
        /\ tasks[loc[c].task_ids[1]].order_index # 0

\* one step of the committed table: the id counter does not go back, it
\* covers every row, a row that appears has an id above every id assigned
\* so far, and a row that stays keeps its created_at
IdsAdvance ==
    /\ sqlite_sequence' >= sqlite_sequence
    /\ DOMAIN tasks' \subseteq 1..sqlite_sequence'
    /\ \A i \in DOMAIN tasks' \ DOMAIN tasks : i > sqlite_sequence
    /\ \A i \in DOMAIN tasks' \cap DOMAIN tasks :
          tasks'[i].created_at = tasks[i].created_at

\* C13: over any sequence of Creates, Updates and Deletes, every Create
\* assigns an id different from every id assigned before, those of deleted
\* tasks included, and returns it; no Update or Delete changes the id or
\* the created_at of a task.
C13_IdsNeverReused ==
    /\ [](\A c \in Clients :
             Answered(c, "create", 201)
             => /\ resp[c].body = SelectById(tasks, loc[c].id)
                /\ loc[c].id \notin DOMAIN before[c])
    /\ [][IdsAdvance]_vars

\* a Create was answered after the task with the largest id had been
\* deleted, and did not get that id again
C13_Witness ==
    \E c \in Clients :
        /\ Answered(c, "create", 201)
        /\ loc[c].id > 1
        /\ loc[c].id - 1 \notin DOMAIN before[c]
        /\ before[c] # EmptyTable

\* C14: a Get of the id a successful Create returned, with no operation in
\* between, returns exactly the task the Create returned: same id, title,
\* status, created_at and order_index.
C14_RoundTrip ==
    \A c, d \in Clients :
        /\ c # d
        /\ Answered(c, "create", 201)
        /\ loc[d].op = "get" /\ pc[d] = "done"
        /\ before[d] = tasks
        /\ loc[d].id = loc[c].id
        => /\ resp[d].code = 200
           /\ Len(resp[c].body) = 1
           /\ resp[c].body[1].id = loc[c].id
           /\ resp[d].body = resp[c].body

\* a Get followed a Create whose task has a created_at no other task has
C14_Witness ==
    \E c, d \in Clients :
        /\ c # d
        /\ Answered(c, "create", 201)
        /\ Answered(d, "get", 200)
        /\ before[d] = tasks
        /\ loc[d].id = loc[c].id
        /\ \A i \in DOMAIN before[c] :
              tasks[i].created_at # tasks[loc[c].id].created_at

\* C15: no operation writes before its validation is complete: while the
\* status check of a Create or an Update, or the existence lookup of an
\* Update or a Delete, is still to run, the handler's connection has
\* issued no write -- in particular no sentinel, shift or placement write
\* of an Update whose status turns out invalid.
C15_ValidateBeforeWrite ==
    \A c \in Clients :
        pc[c] \in {"create", "update", "update_reorder", "update_shift",
                   "update_place", "update_fields", "delete"}
        => ~conn[c].in_txn

\* C16: an Update of an existing task whose order_index is absent or equal
\* to the task's current one changes no task's order_index; a successful
\* Update, moving or not, adds and removes no row, keeps every created_at,
\* leaves title and status of every other task as they were, and gives
\* the addressed task the status it carried, or leaves it when it carried
\* none.
C16_UpdateFrame ==
    \A c \in Clients :
        LET B == before[c]
            id == loc[c].id
        IN /\ pc[c] = "done" /\ loc[c].op = "update" /\ id \in DOMAIN B
              /\ ~IsMove(c)
              => /\ DOMAIN tasks = DOMAIN B
                 /\ \A i \in DOMAIN B : tasks[i].order_index = B[i].order_index
           /\ Answered(c, "update", 200)
              => /\ DOMAIN tasks = DOMAIN B
                 /\ \A i \in DOMAIN B : tasks[i].created_at = B[i].created_at
                 /\ \A i \in DOMAIN B \ {id} : SameFields(tasks, B, i)
                 /\ tasks[id].status =
                        IF Truthy(loc[c].status) THEN Val(loc[c].status)
                        ELSE B[id].status

\* an Update that carried the task's current order_index changed the title
\* and the status of its task, on a list with other tasks
C16_Witness ==
    \E c \in Clients :
        /\ Answered(c, "update", 200)
        /\ loc[c].order_index = Some(loc[c].current_order_index)
        /\ Cardinality(DOMAIN tasks) >= 2
        /\ tasks[loc[c].id].title # before[c][loc[c].id].title
        /\ tasks[loc[c].id].status # before[c][loc[c].id].status

\* C17: a successful Create, with or without an explicit order_index, adds
\* exactly one row, under a new id, and leaves every field of every task
\* that existed unchanged; an explicit order_index is stored as given, also
\* when another task holds that value.
C17_CreateFrame ==
    \A c \in Clients :
        Answered(c, "create", 201)
        => LET B == before[c]
               id == loc[c].id
           IN /\ id \notin DOMAIN B
              /\ DOMAIN tasks = DOMAIN B \cup {id}
              /\ \A i \in DOMAIN B : tasks[i] = B[i]
              /\ loc[c].order_index # None
                 => tasks[id].order_index = Val(loc[c].order_index)

\* a Create stored its task at an order_index another task holds, below
\* that of a third task
C17_Witness ==
    \E c \in Clients :
        /\ Answered(c, "create", 201)
        /\ loc[c].order_index # None
        /\ \E i, j \in DOMAIN before[c] :
              /\ tasks[i].order_index = Val(loc[c].order_index)
              /\ tasks[j].order_index > Val(loc[c].order_index)

\* every row of t holds a status of the enumeration
ValidStatuses(t) == \A i \in DOMAIN t : t[i].status \in valid_statuses

\* C18: in every reachable state every stored status, committed or
\* pending, is one of todo, in_progress, done; an Update of an existing
\* task that carries the empty string as status succeeds and leaves the
\* stored status as it was; one that carries a status of the enumeration
\* succeeds and stores it, whatever status the task had.
C18_StatusValid ==
    /\ ValidStatuses(tasks)
    /\ \A c \in Clients :
          /\ ValidStatuses(conn[c].rows)
          /\ pc[c] = "done" /\ loc[c].op = "update"
             /\ loc[c].id \in DOMAIN before[c]
             => LET id == loc[c].id
                IN /\ loc[c].status = Some("")
                      => /\ resp[c].code = 200
                         /\ tasks[id].status = before[c][id].status
                   /\ loc[c].status # None /\ Val(loc[c].status) \in valid_statuses
                      => /\ resp[c].code = 200
                         /\ tasks[id].status = Val(loc[c].status)

\* an Update that carried the empty status and a new title succeeded on a
\* task that is in progress
C18_Witness ==
    \E c \in Clients :
        /\ Answered(c, "update", 200)
        /\ loc[c].status = Some("")
        /\ tasks[loc[c].id].status = "in_progress"
        /\ tasks[loc[c].id].title # before[c][loc[c].id].title

\* the request of c is an Update that asks to move a task of a dense list
\* of n tasks to a position T outside 0 .. n-1, and has ended
MoveOutOfRange(c, T) ==
    /\ pc[c] = "done" /\ loc[c].op = "update"
    /\ loc[c].id \in DOMAIN before[c]
    /\ Dense(before[c])
    /\ loc[c].order_index = Some(T)
    /\ T < 0 \/ T >= Cardinality(DOMAIN before[c])

\* C19: on a dense list of n tasks an Update that moves a task to T
\* outside 0 .. n-1 (T >= n, or T < 0, the sentinel -1 included) and
\* carries no invalid status succeeds; the moved task is stored at exactly
\* T and the order_index values are no longer 0 .. n-1; a negative T is
\* what a Get of the task returns, and a List returns the task first.
C19_MoveOutOfRange ==
    \A c \in Clients : \A T \in MoveTargets :
        MoveOutOfRange(c, T) /\ ~InvalidStatus(c)
        => LET id == loc[c].id
           IN /\ resp[c].code = 200
              /\ DOMAIN tasks = DOMAIN before[c]
              /\ tasks[id].order_index = T
              /\ ~Dense(tasks)
              /\ resp[c].body = SelectById(tasks, id)
              /\ T < 0 =>
                    /\ SelectById(tasks, id)[1].order_index < 0
                    /\ \A s \in OrderedIds(tasks) : s[1] = id

\* a task that was not first in a dense list of three was moved to the
\* sentinel value
C19_Witness ==
    \E c \in Clients :
        /\ MoveOutOfRange(c, TEMP_INDEX)
        /\ Answered(c, "update", 200)
        /\ loc[c].current_order_index >= 1
        /\ Cardinality(DOMAIN tasks) = 3

\* the step commits an Update of d that moves the task c's Update moved
\* from C to T back from T to C, with no operation in between
MovesBack(c, d, C, T) ==
    /\ c # d /\ C # T
    /\ MovedOnDense(c, C, T)
    /\ T <= Cardinality(DOMAIN before[c]) - 1
    /\ pc[d] = "update_commit" /\ pc'[d] = "update_fetch"
    /\ before[d] = tasks
    /\ loc[d].id = loc[c].id
    /\ loc[d].current_order_index = T
    /\ loc[d].order_index = Some(C)

\* C20: on a dense list, moving a task from C to T within 0 .. n-1 and
\* then moving the same task from T back to C leaves every task at the
\* order_index it had before the first move.
C20_MoveInverse ==
    [][\A c, d \in Clients : \A C, T \in 0..MaxIndex :
          MovesBack(c, d, C, T)
          => /\ DOMAIN tasks' = DOMAIN before[c]
             /\ \A i \in DOMAIN before[c] :
                   tasks'[i].order_index = before[c][i].order_index]_vars

\* a task was moved two or more positions and then moved back: both
\* Updates are answered, the second one started from the list the first
\* one left
C20_Witness ==
    \E c, d \in Clients : \E C, T \in 0..MaxIndex :
        /\ c # d
        /\ MovedOnDense(c, C, T)
        /\ T >= C + 2 \/ C >= T + 2
        /\ Answered(d, "update", 200)
        /\ loc[d].id = loc[c].id
        /\ loc[d].current_order_index = T
        /\ loc[d].order_index = Some(C)
        /\ before[d] # before[c]
        /\ before[d][loc[c].id].order_index = T
        /\ before[c][loc[c].id].order_index = C

====
